---- MODULE Spec2Model ----
(***************************************************************************)
(* Front management of the GPUQREngine scheduler                           *)
(* (SPQR/GPUQREngine/Source/Scheduler/Scheduler_Front.cpp):                *)
(* activateFront, pullFrontData and finishFront, driven by one host        *)
(* thread, together with the CUDA events and streams they talk to.         *)
(***************************************************************************)
EXTENDS Integers, FiniteSets, Sequences, TLC

\* ------------------------------------------------------------------------
\* Bounds and program constants
\* ------------------------------------------------------------------------

\* Number of fronts of one factorization run (front ids 0 .. NumFronts-1).
NumFronts == 3

\* Sentinel of the inverse permutation: the front is not active.
EMPTY == -1

Fronts == 0 .. (NumFronts - 1)
Positions == 0 .. (NumFronts - 1)

\* Classifications of a front (sparseMeta.isSparse, .pushOnly, .isStaged),
\* set by the symbolic analysis before the scheduler runs: dense, sparse
\* push-only, sparse staged, dense marked push-only.
KindPattern ==
    << [isSparse |-> FALSE, pushOnly |-> FALSE, isStaged |-> FALSE],
       [isSparse |-> TRUE,  pushOnly |-> TRUE,  isStaged |-> FALSE],
       [isSparse |-> TRUE,  pushOnly |-> FALSE, isStaged |-> TRUE],
       [isSparse |-> FALSE, pushOnly |-> TRUE,  isStaged |-> FALSE],
       [isSparse |-> TRUE,  pushOnly |-> TRUE,  isStaged |-> FALSE] >>
FrontKinds == { KindPattern[i] : i \in 1 .. Len(KindPattern) }

\* The runs explored: the fronts take their kinds from the pattern in turn,
\* starting at its first or at its fourth entry, so that every run has
\* fronts that are pulled and fronts that are push-only, and every kind
\* occurs in some run.
Classification(k) ==
    [f \in Fronts |-> KindPattern[((f + k) % Len(KindPattern)) + 1]]
Classifications == { Classification(k) : k \in {0, 3} }

\* The lifecycle states activateFront can write, and the value a front
\* descriptor holds before its first activation.
FrontStates == {"ALLOCATE_WAIT", "ASSEMBLE_S", "FACTORIZE", "PARENT_WAIT"}

VARIABLES
    afPerm,               \* position -> front id (entries >= numActiveFronts are stale)
    afPinv,               \* front id -> position, or EMPTY
    numActiveFronts,      \* number of active fronts
    state,                \* frontList[f].state
    sparseMeta,           \* frontList[f].sparseMeta (fixed during a run)
    FrontDataPulled,      \* front id -> BOOLEAN
    eventFrontDataReady,  \* front id -> event
    eventFrontDataPulled, \* front id -> event
    wsR,                  \* front id -> the device-to-host copy of its R factor
    legacyDefaultStream,  \* does stream 0 synchronize with the other streams?
    lastCall,             \* the host call made by the last step, if it was one
    A,                    \* spex_cholesky_up_factor: the matrix to factor
    L_handle,             \* the caller's handle to L
    rhos_handle,          \* the caller's handle to the pivots
    frame,                \* the function's locals and its position
    heap                  \* the blocks allocated and not freed

schedVars == <<afPerm, afPinv, numActiveFronts, state, FrontDataPulled,
               eventFrontDataReady, eventFrontDataPulled, wsR>>
vars == <<afPerm, afPinv, numActiveFronts, state, sparseMeta, FrontDataPulled,
          eventFrontDataReady, eventFrontDataPulled, wsR,
          legacyDefaultStream, lastCall,
          A, L_handle, rhos_handle, frame, heap>>
cholVars == <<A, L_handle, rhos_handle, frame, heap>>

\* ------------------------------------------------------------------------
\* CUDA events and streams
\* ------------------------------------------------------------------------

\* An event handle: "null" (never created), "live" or "destroyed" (the
\* handle dangles).  done: the work recorded before it has completed.
\* stream: the stream it was recorded on.  waits: the work that was pending,
\* at record time, in the streams the recording stream synchronizes with.
NullEvent == [life |-> "null", done |-> FALSE, stream |-> "none", waits |-> {}]

\* The streams of the scheduler: stream 0, the kernel streams and the
\* stream of the device-to-host copies.
DefaultStream == "stream0"
memoryStreamD2H == "memoryStreamD2H"
kernelStreams == "kernelStreams"

\* No copy of the front's R factor has been issued.
NoTransfer == [issued |-> 0, inFlight |-> FALSE, stream |-> "none", numValues |-> 0]

\* cudaEventQuery: the results it can give.  A null handle is an error; a
\* destroyed handle dangles and the result is not determined.
cudaEventQuery(e) ==
    CASE e.life = "live" -> IF e.done THEN {"cudaSuccess"} ELSE {"cudaErrorNotReady"}
      [] e.life = "null" -> {"cudaErrorInvalidResourceHandle"}
      [] OTHER           -> {"cudaSuccess", "cudaErrorNotReady",
                             "cudaErrorInvalidResourceHandle"}

\* cudaEventDestroy: the handle is not reset, it dangles from here on.
cudaEventDestroy(e) == [e EXCEPT !.life = "destroyed"]

\* The work pending on the device: the kernels whose completion event has
\* not fired and the copies still in flight.
PendingWork ==
    { <<"kernel", g>> : g \in { h \in Fronts : eventFrontDataReady[h].life = "live"
                                               /\ ~eventFrontDataReady[h].done } }
    \cup { <<"copy", g>> : g \in { h \in Fronts : wsR[h].inFlight } }

\* cudaEventCreate followed by cudaEventRecord on stream s, after the work
\* `own` was queued on s.  The legacy stream 0 is recorded after all preceding
\* work of the context; any other stream only orders its own work.
cudaEventRecord(s, own) ==
    [life |-> "live", done |-> FALSE, stream |-> s,
     waits |-> IF s = DefaultStream
                 THEN (IF legacyDefaultStream THEN PendingWork \cup own ELSE {})
                 ELSE own]

\* ------------------------------------------------------------------------
\* Front descriptors
\* ------------------------------------------------------------------------

isDense(f) == ~sparseMeta[f].isSparse
isPushOnly(f) == sparseMeta[f].pushOnly
isStaged(f) == sparseMeta[f].isSparse /\ sparseMeta[f].isStaged

\* Dimensions of front f: columns, contribution-block rows, R values.
fn(f) == f + 1
cm(f) == 1
getNumRValues(f) == fn(f) * fn(f)

\* What a host call did: the operation, its front, the return statement it
\* left by, its result, and the events it queried, destroyed and created
\* (each with the state of the handle at that moment) and the copies it
\* issued.
Call(op, f, path, ret, queried, destroyed, created, transfers) ==
    [op |-> op, f |-> f, path |-> path, ret |-> ret, queried |-> queried,
     destroyed |-> destroyed, created |-> created, transfers |-> transfers]
NoCall == Call("none", EMPTY, "none", "void", {}, {}, {}, 0)

\* ------------------------------------------------------------------------
\* spex_cholesky_up_factor: pointers, locals and inputs
\* ------------------------------------------------------------------------

\* The largest dimension n of the matrices factored.
MaxN == 3

\* A pointer is NULL or names the block it points to.
NULL == "NULL"

\* The locals of spex_cholesky_up_factor as declared in lines 84-108, before
\* its first statement: pc is the position in the function, line the line
\* of the return statement it left by, info the value returned, k the
\* number of iterations of the loop of line 219 completed.
EntryFrame ==
    [pc |-> "entry", line |-> 0, info |-> "none", k |-> 0,
     L |-> NULL, rhos |-> NULL, xi |-> NULL, h |-> NULL, x |-> NULL, c |-> NULL]

\* The matrices factored: of dimension n, with the value x[k] that the
\* triangular solve of iteration k computes for the pivot (negative, zero or
\* positive), k = 0 .. n-1 held at pivot[k + 1].
Matrices ==
    UNION { { [n |-> n, pivot |-> pv] : pv \in [1 .. n -> {-1, 0, 1}] } : n \in 1 .. MaxN }

\* No factorization is running.
NoFactorization ==
    /\ A = [n |-> 1, pivot |-> [i \in 1 .. 1 |-> 1]]
    /\ L_handle = NULL
    /\ rhos_handle = NULL
    /\ frame = EntryFrame
    /\ heap = {}

\* ------------------------------------------------------------------------
\* The scheduler
\* ------------------------------------------------------------------------

\* The scheduler after construction: no front is active, nothing is pulled,
\* no event has been created.
Init ==
    /\ afPerm = [p \in Positions |-> EMPTY]
    /\ afPinv = [f \in Fronts |-> EMPTY]
    /\ numActiveFronts = 0
    /\ state = [f \in Fronts |-> "ALLOCATE_WAIT"]
    /\ sparseMeta \in Classifications
    /\ FrontDataPulled = [f \in Fronts |-> FALSE]
    /\ eventFrontDataReady = [f \in Fronts |-> NullEvent]
    /\ eventFrontDataPulled = [f \in Fronts |-> NullEvent]
    /\ wsR = [f \in Fronts |-> NoTransfer]
    /\ legacyDefaultStream \in BOOLEAN
    /\ lastCall = NoCall
    /\ NoFactorization

\* ------------------------------------------------------------------------
\* Scheduler::activateFront
\* ------------------------------------------------------------------------

\* activateFront with the early exit of line 48 left out.
activateFront_noGuard(f) ==
    /\ UNCHANGED <<cholVars, sparseMeta, legacyDefaultStream, FrontDataPulled,
                   eventFrontDataReady, eventFrontDataPulled, wsR>>
    /\ afPerm' = [afPerm EXCEPT ![numActiveFronts] = f]
    /\ afPinv' = [afPinv EXCEPT ![f] = numActiveFronts]
    /\ numActiveFronts' = numActiveFronts + 1
    /\ state' = [state EXCEPT ![f] =
                   IF isDense(f) THEN "FACTORIZE"
                   ELSE IF sparseMeta[f].pushOnly THEN "PARENT_WAIT"
                   ELSE "ASSEMBLE_S"]
    /\ lastCall' = Call("activateFront", f,
                        IF afPinv[f] # EMPTY THEN "already_active" ELSE "activated",
                        "void", {}, {}, {}, 0)

\* activateFront with the tests of lines 58 and 67 in the other order.
activateFront_pushOnlyFirst(f) ==
    /\ UNCHANGED <<cholVars, sparseMeta, legacyDefaultStream, FrontDataPulled,
                   eventFrontDataReady, eventFrontDataPulled, wsR>>
    /\ IF afPinv[f] # EMPTY
         THEN /\ UNCHANGED <<afPerm, afPinv, numActiveFronts, state>>
              /\ lastCall' = Call("activateFront", f, "already_active", "void",
                                  {}, {}, {}, 0)
         ELSE /\ afPerm' = [afPerm EXCEPT ![numActiveFronts] = f]
              /\ afPinv' = [afPinv EXCEPT ![f] = numActiveFronts]
              /\ numActiveFronts' = numActiveFronts + 1
              /\ state' = [state EXCEPT ![f] =
                             IF sparseMeta[f].pushOnly THEN "PARENT_WAIT"
                             ELSE IF isDense(f) THEN "FACTORIZE"
                             ELSE "ASSEMBLE_S"]
              /\ lastCall' = Call("activateFront", f, "activated", "void",
                                  {}, {}, {}, 0)

\* activateFront with a guard that refuses a front whose state has been
\* written by an earlier activation.
activateFront_refusesFinished(f) ==
    /\ UNCHANGED <<cholVars, sparseMeta, legacyDefaultStream, FrontDataPulled,
                   eventFrontDataReady, eventFrontDataPulled, wsR>>
    /\ IF afPinv[f] # EMPTY \/ state[f] # "ALLOCATE_WAIT"
         THEN /\ UNCHANGED <<afPerm, afPinv, numActiveFronts, state>>
              /\ lastCall' = Call("activateFront", f, "already_active", "void",
                                  {}, {}, {}, 0)
         ELSE /\ afPerm' = [afPerm EXCEPT ![numActiveFronts] = f]
              /\ afPinv' = [afPinv EXCEPT ![f] = numActiveFronts]
              /\ numActiveFronts' = numActiveFronts + 1
              /\ state' = [state EXCEPT ![f] =
                             IF isDense(f) THEN "FACTORIZE"
                             ELSE IF sparseMeta[f].pushOnly THEN "PARENT_WAIT"
                             ELSE "ASSEMBLE_S"]
              /\ lastCall' = Call("activateFront", f, "activated", "void",
                                  {}, {}, {}, 0)

activateFront(f) ==
    /\ UNCHANGED <<cholVars, sparseMeta, legacyDefaultStream, FrontDataPulled,
                   eventFrontDataReady, eventFrontDataPulled, wsR>>
    /\ IF afPinv[f] # EMPTY
         THEN /\ UNCHANGED <<afPerm, afPinv, numActiveFronts, state>>
              /\ lastCall' = Call("activateFront", f, "already_active", "void",
                                  {}, {}, {}, 0)
         ELSE /\ afPerm' = [afPerm EXCEPT ![numActiveFronts] = f]
              /\ afPinv' = [afPinv EXCEPT ![f] = numActiveFronts]
              /\ numActiveFronts' = numActiveFronts + 1
              /\ state' = [state EXCEPT ![f] =
                             IF isDense(f) THEN "FACTORIZE"
                             ELSE IF sparseMeta[f].pushOnly THEN "PARENT_WAIT"
                             ELSE "ASSEMBLE_S"]
              /\ lastCall' = Call("activateFront", f, "activated", "void",
                                  {}, {}, {}, 0)

\* ------------------------------------------------------------------------
\* Scheduler::pullFrontData
\* ------------------------------------------------------------------------

\* Lines 108-136 with the cudaEventDestroy of line 108 left out.
IssuePull_keepsReady(f) ==
    LET numValuesToPull ==
            getNumRValues(f) + (IF isStaged(f) THEN cm(f) * fn(f) ELSE 0)
    IN
    /\ UNCHANGED eventFrontDataReady
    /\ wsR' = [wsR EXCEPT ![f] =
                 [issued |-> @.issued + 1, inFlight |-> TRUE,
                  stream |-> memoryStreamD2H, numValues |-> numValuesToPull]]
    /\ eventFrontDataPulled' =
         [eventFrontDataPulled EXCEPT ![f] =
            cudaEventRecord(DefaultStream, {<<"copy", f>>})]
    /\ FrontDataPulled' = [FrontDataPulled EXCEPT ![f] = TRUE]
    /\ lastCall' = Call("pullFrontData", f, "issued", TRUE,
                        {<<"ready", eventFrontDataReady[f].life>>},
                        {}, {"pulled"}, 1)

\* Lines 108-136: the ready event was found signaled; issue the copy of the
\* R factor (and of the contribution block rows of a staged front) on the
\* D2H stream and record the pulled event.
IssuePull(f) ==
    LET numValuesToPull ==
            getNumRValues(f) + (IF isStaged(f) THEN cm(f) * fn(f) ELSE 0)
    IN
    /\ eventFrontDataReady' =
         [eventFrontDataReady EXCEPT ![f] = cudaEventDestroy(@)]
    /\ wsR' = [wsR EXCEPT ![f] =
                 [issued |-> @.issued + 1, inFlight |-> TRUE,
                  stream |-> memoryStreamD2H, numValues |-> numValuesToPull]]
    /\ eventFrontDataPulled' =
         [eventFrontDataPulled EXCEPT ![f] =
            cudaEventRecord(DefaultStream, {<<"copy", f>>})]
    /\ FrontDataPulled' = [FrontDataPulled EXCEPT ![f] = TRUE]
    /\ lastCall' = Call("pullFrontData", f, "issued", TRUE,
                        {<<"ready", eventFrontDataReady[f].life>>},
                        {<<"ready", eventFrontDataReady[f].life>>},
                        {"pulled"}, 1)

\* pullFrontData with the query of the ready event (line 107) left out.
pullFrontData_noReadyQuery(f) ==
    /\ UNCHANGED <<cholVars, sparseMeta, legacyDefaultStream, afPerm, afPinv,
                   numActiveFronts, state>>
    /\ IF isPushOnly(f) \/ FrontDataPulled[f]
         THEN /\ lastCall' = Call("pullFrontData", f,
                                  IF isPushOnly(f) THEN "push_only" ELSE "already_pulled",
                                  TRUE, {}, {}, {}, 0)
              /\ UNCHANGED <<FrontDataPulled, eventFrontDataReady,
                             eventFrontDataPulled, wsR>>
         ELSE IssuePull(f)

\* pullFrontData with the early return of line 101 left out.
pullFrontData_noMemo(f) ==
    /\ UNCHANGED <<cholVars, sparseMeta, legacyDefaultStream, afPerm, afPinv,
                   numActiveFronts, state>>
    /\ IF isPushOnly(f)
         THEN /\ lastCall' = Call("pullFrontData", f, "push_only", TRUE, {}, {}, {}, 0)
              /\ UNCHANGED <<FrontDataPulled, eventFrontDataReady,
                             eventFrontDataPulled, wsR>>
         ELSE \E q \in cudaEventQuery(eventFrontDataReady[f]) :
                IF q # "cudaSuccess"
                  THEN /\ lastCall' = Call("pullFrontData", f, "not_ready", FALSE,
                                           {<<"ready", eventFrontDataReady[f].life>>},
                                           {}, {}, 0)
                       /\ UNCHANGED <<FrontDataPulled, eventFrontDataReady,
                                      eventFrontDataPulled, wsR>>
                  ELSE IssuePull(f)

\* pullFrontData with the early return of line 98 left out.
pullFrontData_noPushOnlyReturn(f) ==
    /\ UNCHANGED <<cholVars, sparseMeta, legacyDefaultStream, afPerm, afPinv,
                   numActiveFronts, state>>
    /\ IF FrontDataPulled[f]
         THEN /\ lastCall' = Call("pullFrontData", f, "already_pulled", TRUE,
                                  {}, {}, {}, 0)
              /\ UNCHANGED <<FrontDataPulled, eventFrontDataReady,
                             eventFrontDataPulled, wsR>>
         ELSE \E q \in cudaEventQuery(eventFrontDataReady[f]) :
                IF q # "cudaSuccess"
                  THEN /\ lastCall' = Call("pullFrontData", f, "not_ready", FALSE,
                                           {<<"ready", eventFrontDataReady[f].life>>},
                                           {}, {}, 0)
                       /\ UNCHANGED <<FrontDataPulled, eventFrontDataReady,
                                      eventFrontDataPulled, wsR>>
                  ELSE IssuePull(f)

pullFrontData(f) ==
    /\ UNCHANGED <<cholVars, sparseMeta, legacyDefaultStream, afPerm, afPinv,
                   numActiveFronts, state>>
    /\ IF isPushOnly(f)
         THEN /\ lastCall' = Call("pullFrontData", f, "push_only", TRUE, {}, {}, {}, 0)
              /\ UNCHANGED <<FrontDataPulled, eventFrontDataReady,
                             eventFrontDataPulled, wsR>>
         ELSE IF FrontDataPulled[f]
         THEN /\ lastCall' = Call("pullFrontData", f, "already_pulled", TRUE,
                                  {}, {}, {}, 0)
              /\ UNCHANGED <<FrontDataPulled, eventFrontDataReady,
                             eventFrontDataPulled, wsR>>
         ELSE \E q \in cudaEventQuery(eventFrontDataReady[f]) :
                IF q # "cudaSuccess"
                  THEN /\ lastCall' = Call("pullFrontData", f, "not_ready", FALSE,
                                           {<<"ready", eventFrontDataReady[f].life>>},
                                           {}, {}, 0)
                       /\ UNCHANGED <<FrontDataPulled, eventFrontDataReady,
                                      eventFrontDataPulled, wsR>>
                  ELSE IssuePull(f)

\* ------------------------------------------------------------------------
\* Scheduler::finishFront
\* ------------------------------------------------------------------------

\* The removal with the update of the replacer's inverse entry (line 180)
\* left out.
RemoveActive_noInverseUpdate(f) ==
    LET n == numActiveFronts - 1
        replacer == afPerm[n]
        position == afPinv[f]
    IN
    /\ numActiveFronts' = n
    /\ afPerm' = IF n > 0 THEN [afPerm EXCEPT ![position] = replacer] ELSE afPerm
    /\ afPinv' = [afPinv EXCEPT ![f] = EMPTY]

\* The removal with the move of the replacer into the freed slot (line 179)
\* left out.
RemoveActive_noPermUpdate(f) ==
    LET n == numActiveFronts - 1
        replacer == afPerm[n]
        position == afPinv[f]
    IN
    /\ numActiveFronts' = n
    /\ afPerm' = afPerm
    /\ afPinv' = IF n > 0
                   THEN [[afPinv EXCEPT ![replacer] = position] EXCEPT ![f] = EMPTY]
                   ELSE [afPinv EXCEPT ![f] = EMPTY]

\* Lines 172-182: remove f from the active fronts, the last active front
\* taking its slot.
\* Lines 172-182 with the replacer taken from the first slot of afPerm
\* instead of the last active one.
RemoveActive_replacerFirst(f) ==
    LET n == numActiveFronts - 1
        replacer == afPerm[0]
        position == afPinv[f]
    IN
    /\ numActiveFronts' = n
    /\ IF n > 0
         THEN /\ afPerm' = [afPerm EXCEPT ![position] = replacer]
              /\ afPinv' = [[afPinv EXCEPT ![replacer] = position] EXCEPT ![f] = EMPTY]
         ELSE /\ afPerm' = afPerm
              /\ afPinv' = [afPinv EXCEPT ![f] = EMPTY]

RemoveActive(f) ==
    LET n == numActiveFronts - 1
        replacer == afPerm[n]
        position == afPinv[f]
    IN
    /\ numActiveFronts' = n
    /\ IF n > 0
         THEN /\ afPerm' = [afPerm EXCEPT ![position] = replacer]
              /\ afPinv' = [[afPinv EXCEPT ![replacer] = position] EXCEPT ![f] = EMPTY]
         ELSE /\ afPerm' = afPerm
              /\ afPinv' = [afPinv EXCEPT ![f] = EMPTY]

\* finishFront with the guard of lines 165-168 left out: the pulled event is
\* destroyed and the front removed whatever the query says.
finishFront_noQuery(f) ==
    /\ UNCHANGED <<cholVars, sparseMeta, legacyDefaultStream, state, FrontDataPulled,
                   eventFrontDataReady, wsR>>
    /\ IF afPinv[f] = EMPTY
         THEN /\ lastCall' = Call("finishFront", f, "already_freed", TRUE, {}, {}, {}, 0)
              /\ UNCHANGED <<afPerm, afPinv, numActiveFronts, eventFrontDataPulled>>
         ELSE IF ~isPushOnly(f)
           THEN /\ eventFrontDataPulled' =
                     [eventFrontDataPulled EXCEPT ![f] = cudaEventDestroy(@)]
                /\ RemoveActive(f)
                /\ lastCall' = Call("finishFront", f, "freed", TRUE, {},
                                    {<<"pulled", eventFrontDataPulled[f].life>>}, {}, 0)
           ELSE /\ UNCHANGED eventFrontDataPulled
                /\ RemoveActive(f)
                /\ lastCall' = Call("finishFront", f, "freed", TRUE, {}, {}, {}, 0)

\* finishFront with the decrement of line 173 made before the guard.
finishFront_earlyDecrement(f) ==
    /\ UNCHANGED <<cholVars, sparseMeta, legacyDefaultStream, state, FrontDataPulled,
                   eventFrontDataReady, wsR>>
    /\ IF afPinv[f] = EMPTY
         THEN /\ lastCall' = Call("finishFront", f, "already_freed", TRUE, {}, {}, {}, 0)
              /\ UNCHANGED <<afPerm, afPinv, numActiveFronts, eventFrontDataPulled>>
         ELSE IF ~isPushOnly(f)
           THEN \E q \in cudaEventQuery(eventFrontDataPulled[f]) :
                  IF q # "cudaSuccess"
                    THEN /\ lastCall' = Call("finishFront", f, "not_pulled", FALSE,
                                             {<<"pulled", eventFrontDataPulled[f].life>>},
                                             {}, {}, 0)
                         /\ numActiveFronts' = numActiveFronts - 1
                         /\ UNCHANGED <<afPerm, afPinv, eventFrontDataPulled>>
                    ELSE /\ eventFrontDataPulled' =
                              [eventFrontDataPulled EXCEPT ![f] = cudaEventDestroy(@)]
                         /\ RemoveActive(f)
                         /\ lastCall' = Call("finishFront", f, "freed", TRUE,
                                             {<<"pulled", eventFrontDataPulled[f].life>>},
                                             {<<"pulled", eventFrontDataPulled[f].life>>},
                                             {}, 0)
           ELSE /\ UNCHANGED eventFrontDataPulled
                /\ RemoveActive(f)
                /\ lastCall' = Call("finishFront", f, "freed", TRUE, {}, {}, {}, 0)

\* finishFront with the early return of line 157 left out.
finishFront_noFreedCheck(f) ==
    /\ UNCHANGED <<cholVars, sparseMeta, legacyDefaultStream, state, FrontDataPulled,
                   eventFrontDataReady, wsR>>
    /\ IF ~isPushOnly(f)
         THEN \E q \in cudaEventQuery(eventFrontDataPulled[f]) :
                IF q # "cudaSuccess"
                  THEN /\ lastCall' = Call("finishFront", f, "not_pulled", FALSE,
                                           {<<"pulled", eventFrontDataPulled[f].life>>},
                                           {}, {}, 0)
                       /\ UNCHANGED <<afPerm, afPinv, numActiveFronts,
                                      eventFrontDataPulled>>
                  ELSE /\ eventFrontDataPulled' =
                            [eventFrontDataPulled EXCEPT ![f] = cudaEventDestroy(@)]
                       /\ RemoveActive(f)
                       /\ lastCall' = Call("finishFront", f, "freed", TRUE,
                                           {<<"pulled", eventFrontDataPulled[f].life>>},
                                           {<<"pulled", eventFrontDataPulled[f].life>>},
                                           {}, 0)
         ELSE /\ UNCHANGED eventFrontDataPulled
              /\ RemoveActive(f)
              /\ lastCall' = Call("finishFront", f, "freed", TRUE, {}, {}, {}, 0)

\* finishFront that queries the ready event where line 165 queries the
\* pulled event.
finishFront_queriesReady(f) ==
    /\ UNCHANGED <<cholVars, sparseMeta, legacyDefaultStream, state, FrontDataPulled,
                   eventFrontDataReady, wsR>>
    /\ IF afPinv[f] = EMPTY
         THEN /\ lastCall' = Call("finishFront", f, "already_freed", TRUE, {}, {}, {}, 0)
              /\ UNCHANGED <<afPerm, afPinv, numActiveFronts, eventFrontDataPulled>>
         ELSE IF ~isPushOnly(f)
           THEN \E q \in cudaEventQuery(eventFrontDataReady[f]) :
                  IF q # "cudaSuccess"
                    THEN /\ lastCall' = Call("finishFront", f, "not_pulled", FALSE,
                                             {<<"ready", eventFrontDataReady[f].life>>},
                                             {}, {}, 0)
                         /\ UNCHANGED <<afPerm, afPinv, numActiveFronts,
                                        eventFrontDataPulled>>
                    ELSE /\ eventFrontDataPulled' =
                              [eventFrontDataPulled EXCEPT ![f] = cudaEventDestroy(@)]
                         /\ RemoveActive(f)
                         /\ lastCall' = Call("finishFront", f, "freed", TRUE,
                                             {<<"ready", eventFrontDataReady[f].life>>},
                                             {<<"pulled", eventFrontDataPulled[f].life>>},
                                             {}, 0)
           ELSE /\ UNCHANGED eventFrontDataPulled
                /\ RemoveActive(f)
                /\ lastCall' = Call("finishFront", f, "freed", TRUE, {}, {}, {}, 0)

finishFront(f) ==
    /\ UNCHANGED <<cholVars, sparseMeta, legacyDefaultStream, state, FrontDataPulled,
                   eventFrontDataReady, wsR>>
    /\ IF afPinv[f] = EMPTY
         THEN /\ lastCall' = Call("finishFront", f, "already_freed", TRUE, {}, {}, {}, 0)
              /\ UNCHANGED <<afPerm, afPinv, numActiveFronts, eventFrontDataPulled>>
         ELSE IF ~isPushOnly(f)
           THEN \E q \in cudaEventQuery(eventFrontDataPulled[f]) :
                  IF q # "cudaSuccess"
                    THEN /\ lastCall' = Call("finishFront", f, "not_pulled", FALSE,
                                             {<<"pulled", eventFrontDataPulled[f].life>>},
                                             {}, {}, 0)
                         /\ UNCHANGED <<afPerm, afPinv, numActiveFronts,
                                        eventFrontDataPulled>>
                    ELSE /\ eventFrontDataPulled' =
                              [eventFrontDataPulled EXCEPT ![f] = cudaEventDestroy(@)]
                         /\ RemoveActive(f)
                         /\ lastCall' = Call("finishFront", f, "freed", TRUE,
                                             {<<"pulled", eventFrontDataPulled[f].life>>},
                                             {<<"pulled", eventFrontDataPulled[f].life>>},
                                             {}, 0)
           ELSE /\ UNCHANGED eventFrontDataPulled
                /\ RemoveActive(f)
                /\ lastCall' = Call("finishFront", f, "freed", TRUE, {}, {}, {}, 0)

\* ------------------------------------------------------------------------
\* The device: kernels, copies and events complete on their own
\* ------------------------------------------------------------------------

envUnchanged == UNCHANGED <<afPerm, afPinv, numActiveFronts, state, sparseMeta,
                            FrontDataPulled, legacyDefaultStream, cholVars>>

\* The kernel launch of an active front that is factorized on the device
\* creates its ready event and records it behind the kernel.
kernelLaunch(f) ==
    /\ afPinv[f] # EMPTY
    /\ ~isPushOnly(f)
    /\ eventFrontDataReady[f].life = "null"
    /\ eventFrontDataReady' =
         [eventFrontDataReady EXCEPT ![f] = cudaEventRecord(kernelStreams, {})]
    /\ lastCall' = NoCall
    /\ UNCHANGED <<eventFrontDataPulled, wsR>>
    /\ envUnchanged

\* The factorization kernel of f finishes: its ready event fires.
kernelComplete(f) ==
    /\ eventFrontDataReady[f].life = "live"
    /\ ~eventFrontDataReady[f].done
    /\ eventFrontDataReady' = [eventFrontDataReady EXCEPT ![f].done = TRUE]
    /\ lastCall' = NoCall
    /\ UNCHANGED <<eventFrontDataPulled, wsR>>
    /\ envUnchanged

\* The device-to-host copy of f's R factor finishes.
transferComplete(f) ==
    /\ wsR[f].inFlight
    /\ wsR' = [wsR EXCEPT ![f].inFlight = FALSE]
    /\ lastCall' = NoCall
    /\ UNCHANGED <<eventFrontDataReady, eventFrontDataPulled>>
    /\ envUnchanged

\* The pulled event of f fires: all the work it was recorded behind is done.
eventPulledComplete(f) ==
    /\ eventFrontDataPulled[f].life = "live"
    /\ ~eventFrontDataPulled[f].done
    /\ eventFrontDataPulled[f].waits \cap PendingWork = {}
    /\ eventFrontDataPulled' = [eventFrontDataPulled EXCEPT ![f].done = TRUE]
    /\ lastCall' = NoCall
    /\ UNCHANGED <<eventFrontDataReady, wsR>>
    /\ envUnchanged

Next ==
    \/ \E f \in Fronts : activateFront(f)
    \/ \E f \in Fronts : pullFrontData(f)
    \/ \E f \in Fronts : finishFront(f)
    \/ \E f \in Fronts : kernelLaunch(f)
    \/ \E f \in Fronts : kernelComplete(f)
    \/ \E f \in Fronts : transferComplete(f)
    \/ \E f \in Fronts : eventPulledComplete(f)

Spec == Init /\ [][Next]_vars

\* The scheduler under a planner that keeps retrying and a device that makes
\* progress: the work queued on the device completes and the events recorded
\* behind it fire (kernelComplete, transferComplete, eventPulledComplete), and
\* the planner's loop calls pullFrontData(f) and finishFront(f) again after
\* every call that returned false.
Fairness ==
    \A f \in Fronts :
        /\ WF_vars(kernelComplete(f))
        /\ WF_vars(transferComplete(f))
        /\ WF_vars(eventPulledComplete(f))
        /\ WF_vars(pullFrontData(f))
        /\ WF_vars(finishFront(f))

FairSpec == Init /\ [][Next]_vars /\ Fairness

\* ------------------------------------------------------------------------
\* spex_cholesky_up_factor
\* ------------------------------------------------------------------------

\* The values a failing callee returns (SPEX_matrix_allocate,
\* spex_cholesky_up_triangular_solve, the mpz wrappers).
FailureInfo == {"SPEX_OUT_OF_MEMORY", "SPEX_INCORRECT_INPUT", "SPEX_PANIC"}

\* The function's memory: its locals and the heap.
Memory == [frame |-> frame, heap |-> heap]

\* SPEX_malloc and SPEX_matrix_allocate on success: block b is live.
Allocate(m, b) == [m EXCEPT !.heap = @ \cup {b}]

\* Lines 12-23: SPEX_FREE_WORKSPACE frees x, xi, h and c and resets them.
SPEX_FREE_WORKSPACE(m) ==
    [frame |-> [m.frame EXCEPT !.x = NULL, !.xi = NULL, !.h = NULL, !.c = NULL],
     heap  |-> m.heap \ {m.frame.x, m.frame.xi, m.frame.h, m.frame.c}]

\* Lines 25-34: SPEX_FREE_ALL frees L and rhos, then the workspace.
SPEX_FREE_ALL(m) ==
    SPEX_FREE_WORKSPACE(
        [frame |-> [m.frame EXCEPT !.L = NULL, !.rhos = NULL],
         heap  |-> m.heap \ {m.frame.L, m.frame.rhos}])

\* A return statement at line ln with value r.
Return(m, ln, r) ==
    [m EXCEPT !.frame.pc = "returned", !.frame.line = ln, !.frame.info = r]

\* SPEX_CHECK (method): when the method's result r is not SPEX_OK, free
\* everything and return r from line ln; otherwise go on with m.
SPEX_CHECK(r, m, ln) ==
    IF r # "SPEX_OK" THEN Return(SPEX_FREE_ALL(Memory), ln, r) ELSE m

\* What a step leaves alone: the scheduler and the input matrix.
upFactorUnchanged ==
    UNCHANGED <<schedVars, sparseMeta, legacyDefaultStream, lastCall, A>>

\* Lines 84-108: the output handles are reset, the locals start as NULL.
CheckInputs ==
    /\ frame.pc = "entry"
    /\ L_handle' = NULL
    /\ rhos_handle' = NULL
    /\ frame' = [EntryFrame EXCEPT !.pc = "workspace"]
    /\ UNCHANGED heap
    /\ upFactorUnchanged

\* Lines 111-137: c, h and xi are allocated; each SPEX_malloc can fail.  If
\* one did, the workspace is freed and the function returns
\* SPEX_OUT_OF_MEMORY.
AllocateWorkspace ==
    /\ frame.pc = "workspace"
    /\ \E c \in {NULL, "c"}, h \in {NULL, "h"}, xi \in {NULL, "xi"} :
         LET m == [frame |-> [frame EXCEPT !.c = c, !.h = h, !.xi = xi],
                   heap  |-> heap \cup ({c, h, xi} \ {NULL})]
             after == IF h = NULL \/ xi = NULL \/ c = NULL
                        THEN Return(SPEX_FREE_WORKSPACE(m), 130, "SPEX_OUT_OF_MEMORY")
                        ELSE [m EXCEPT !.frame.pc = "x"]
         IN /\ frame' = after.frame
            /\ heap' = after.heap
    /\ UNCHANGED <<L_handle, rhos_handle>>
    /\ upFactorUnchanged

\* Lines 166-167: x is allocated.
AllocateX ==
    /\ frame.pc = "x"
    /\ \E r \in {"SPEX_OK"} \cup FailureInfo :
         LET after == SPEX_CHECK(r, Allocate([Memory EXCEPT !.frame.x = "x",
                                                            !.frame.pc = "rhos"], "x"),
                                 166)
         IN /\ frame' = after.frame
            /\ heap' = after.heap
    /\ UNCHANGED <<L_handle, rhos_handle>>
    /\ upFactorUnchanged

\* Lines 173-174: rhos is allocated.
AllocateRhos ==
    /\ frame.pc = "rhos"
    /\ \E r \in {"SPEX_OK"} \cup FailureInfo :
         LET after == SPEX_CHECK(r, Allocate([Memory EXCEPT !.frame.rhos = "rhos",
                                                            !.frame.pc = "init_x"], "rhos"),
                                 173)
         IN /\ frame' = after.frame
            /\ heap' = after.heap
    /\ UNCHANGED <<L_handle, rhos_handle>>
    /\ upFactorUnchanged

\* Lines 180-184: the entries of x are initialized; SPEX_MPZ_INIT2 can fail.
InitializeX ==
    /\ frame.pc = "init_x"
    /\ \E r \in {"SPEX_OK", "SPEX_OUT_OF_MEMORY"} :
         LET after == SPEX_CHECK(r, [Memory EXCEPT !.frame.pc = "L"], 183)
         IN /\ frame' = after.frame
            /\ heap' = after.heap
    /\ UNCHANGED <<L_handle, rhos_handle>>
    /\ upFactorUnchanged

\* Lines 197-216: L is allocated and its column pointers are set.
AllocateL ==
    /\ frame.pc = "L"
    /\ \E r \in {"SPEX_OK"} \cup FailureInfo :
         LET after == SPEX_CHECK(r, Allocate([Memory EXCEPT !.frame.L = "L",
                                                            !.frame.pc = "loop"], "L"),
                                 197)
         IN /\ frame' = after.frame
            /\ heap' = after.heap
    /\ UNCHANGED <<L_handle, rhos_handle>>
    /\ upFactorUnchanged

\* Iteration k with the zero test of line 231 left out: every x[k] is taken
\* as pivot.
Iteration_noZeroTest ==
    /\ frame.pc = "loop"
    /\ frame.k < A.n
    /\ \E solve \in {"SPEX_OK"} \cup FailureInfo,
          set \in {"SPEX_OK", "SPEX_OUT_OF_MEMORY"} :
         LET after ==
               IF solve # "SPEX_OK"
                 THEN SPEX_CHECK(solve, Memory, 223)
                 ELSE SPEX_CHECK(set, [Memory EXCEPT !.frame.k = @ + 1], 233)
         IN /\ frame' = after.frame
            /\ heap' = after.heap
    /\ UNCHANGED <<L_handle, rhos_handle>>
    /\ upFactorUnchanged

\* Lines 219-285, one iteration k of the loop: the triangular solve computes
\* x; if x[k] is zero everything is freed and the function returns
\* SPEX_NOTSPD, otherwise x[k] becomes the pivot rhos[k] and row k of L is
\* filled.  The solve and the mpz assignments can fail.
Iteration ==
    /\ frame.pc = "loop"
    /\ frame.k < A.n
    /\ \E solve \in {"SPEX_OK"} \cup FailureInfo,
          set \in {"SPEX_OK", "SPEX_OUT_OF_MEMORY"} :
         LET sgn == A.pivot[frame.k + 1]
             after ==
               IF solve # "SPEX_OK"
                 THEN SPEX_CHECK(solve, Memory, 223)
                 ELSE IF sgn # 0
                   THEN SPEX_CHECK(set, [Memory EXCEPT !.frame.k = @ + 1], 233)
                   ELSE Return(SPEX_FREE_ALL(Memory), 240, "SPEX_NOTSPD")
         IN /\ frame' = after.frame
            /\ heap' = after.heap
    /\ UNCHANGED <<L_handle, rhos_handle>>
    /\ upFactorUnchanged

\* Lines 287-298: after the last iteration the handles are set, the
\* workspace is freed and the function returns SPEX_OK.
Finalize ==
    /\ frame.pc = "loop"
    /\ frame.k = A.n
    /\ L_handle' = frame.L
    /\ rhos_handle' = frame.rhos
    /\ LET after == Return(SPEX_FREE_WORKSPACE(Memory), 298, "SPEX_OK")
       IN /\ frame' = after.frame
          /\ heap' = after.heap
    /\ upFactorUnchanged

\* A call of spex_cholesky_up_factor on a matrix of Matrices, with handles
\* that are NULL or still hold what an earlier call left in them; the
\* scheduler is idle.
InitUpFactor ==
    /\ afPerm = [p \in Positions |-> EMPTY]
    /\ afPinv = [f \in Fronts |-> EMPTY]
    /\ numActiveFronts = 0
    /\ state = [f \in Fronts |-> "ALLOCATE_WAIT"]
    /\ sparseMeta = Classification(0)
    /\ FrontDataPulled = [f \in Fronts |-> FALSE]
    /\ eventFrontDataReady = [f \in Fronts |-> NullEvent]
    /\ eventFrontDataPulled = [f \in Fronts |-> NullEvent]
    /\ wsR = [f \in Fronts |-> NoTransfer]
    /\ legacyDefaultStream = TRUE
    /\ lastCall = NoCall
    /\ A \in Matrices
    /\ L_handle \in {NULL, "stale"}
    /\ rhos_handle = L_handle
    /\ frame = EntryFrame
    /\ heap = {}

NextUpFactor ==
    \/ CheckInputs
    \/ AllocateWorkspace
    \/ AllocateX
    \/ AllocateRhos
    \/ InitializeX
    \/ AllocateL
    \/ Iteration
    \/ Finalize

SpecUpFactor == InitUpFactor /\ [][NextUpFactor]_vars

\* ------------------------------------------------------------------------
\* Properties
\* ------------------------------------------------------------------------

\* The step is the call op(f) of the host thread.
IsCall(op, f) == lastCall'.op = op /\ lastCall'.f = f

\* The fronts in the active part of afPerm.
ActiveFronts == { afPerm[p] : p \in { q \in Positions : q < numActiveFronts } }

\* C1: the active-set index is consistent after every operation: every
\* position p < numActiveFronts holds a front whose inverse entry is p, every
\* front with an inverse entry sits at that position below numActiveFronts,
\* and every front outside the active part of afPerm has afPinv = EMPTY.
C1_ActiveSetConsistent ==
    /\ \A p \in Positions :
         p < numActiveFronts => afPerm[p] \in Fronts /\ afPinv[afPerm[p]] = p
    /\ \A f \in Fronts :
         afPinv[f] # EMPTY => afPinv[f] \in Positions
                              /\ afPinv[f] < numActiveFronts
                              /\ afPerm[afPinv[f]] = f
    /\ \A f \in Fronts : f \notin ActiveFronts => afPinv[f] = EMPTY

\* A front was finished while two others stay active, so the last active
\* front may have been moved into the freed slot.
C1_Witness ==
    /\ lastCall.op = "finishFront"
    /\ lastCall.path = "freed"
    /\ numActiveFronts >= 2
    /\ afPerm[numActiveFronts] \in Fronts
    /\ afPinv[afPerm[numActiveFronts]] # EMPTY

\* C2: numActiveFronts is the number of fronts with afPinv[f] # EMPTY.
C2_CountMatches ==
    numActiveFronts = Cardinality({ f \in Fronts : afPinv[f] # EMPTY })

\* An active front was activated again while another front has been
\* finished: the count is two with one front inactive.
C2_Witness ==
    /\ lastCall.op = "activateFront"
    /\ lastCall.path = "already_active"
    /\ numActiveFronts = 2
    /\ \E f \in Fronts : afPinv[f] = EMPTY /\ state[f] # "ALLOCATE_WAIT"

\* C3 as the testable property writes it: for every active front f,
\* afPinv[afPerm[afPinv[f]]] = f, a position compared with a front id.
C3_TripleLookupIsFront ==
    \A f \in Fronts :
        afPinv[f] # EMPTY => afPinv[afPerm[afPinv[f]]] = f

\* C3 amended: for every active front f, afPerm[afPinv[f]] = f, and the
\* triple lookup afPinv[afPerm[afPinv[f]]] gives the position afPinv[f].
C3_LookupRoundTrip ==
    \A f \in Fronts :
        afPinv[f] # EMPTY =>
            /\ afPerm[afPinv[f]] = f
            /\ afPinv[afPerm[afPinv[f]]] = afPinv[f]

\* A front is active at a position that differs from its id, after a
\* removal that moved it.
C3_Witness ==
    /\ lastCall.op = "finishFront"
    /\ lastCall.path = "freed"
    /\ \E f \in Fronts : afPinv[f] # EMPTY /\ afPinv[f] # f
                          /\ afPinv[f] = numActiveFronts - 1

\* C4: finishFront(f) on an active front that is not push-only and whose
\* pulled event has not fired returns false and leaves f active.
C4_NoFinishBeforePulledSignal ==
    [][\A f \in Fronts :
          (IsCall("finishFront", f) /\ afPinv[f] # EMPTY /\ ~isPushOnly(f)
               /\ ~eventFrontDataPulled[f].done)
          => (lastCall'.ret = FALSE /\ afPinv'[f] = afPinv[f]
              /\ numActiveFronts' = numActiveFronts)]_vars

\* finishFront returned false on an active front whose copy was issued and
\* whose pulled event is still pending.
C4_Witness ==
    /\ lastCall.op = "finishFront"
    /\ lastCall.ret = FALSE
    /\ eventFrontDataPulled[lastCall.f].life = "live"
    /\ ~eventFrontDataPulled[lastCall.f].done
    /\ afPinv[lastCall.f] # EMPTY

C6_PulledEventOnTransferStream ==
    \A f \in Fronts :
        eventFrontDataPulled[f].life # "null" =>
            /\ eventFrontDataPulled[f].stream = wsR[f].stream
            /\ eventFrontDataPulled[f].waits = {<<"copy", f>>}
            /\ (eventFrontDataPulled[f].done => ~wsR[f].inFlight)

\* C7: for a front that is not push-only the steps come in the order ready
\* event fires, pullFrontData issues the copy and creates the pulled event,
\* pulled event fires, finishFront removes the front: a copy is issued only
\* when the ready event has fired, the pulled event fires only after the copy
\* was issued, and the front is removed only after the pulled event fired.
C7_LifecycleOrder ==
    [][\A f \in Fronts :
          ~isPushOnly(f) =>
            /\ (wsR'[f].issued # wsR[f].issued \/ (~FrontDataPulled[f] /\ FrontDataPulled'[f])
                \/ (eventFrontDataPulled[f].life = "null"
                    /\ eventFrontDataPulled'[f].life # "null"))
               => /\ eventFrontDataReady[f].done
                  /\ FrontDataPulled'[f]
                  /\ wsR'[f].issued = wsR[f].issued + 1
                  /\ eventFrontDataPulled'[f].life = "live"
                  /\ ~eventFrontDataPulled'[f].done
            /\ (~eventFrontDataPulled[f].done /\ eventFrontDataPulled'[f].done)
               => FrontDataPulled[f] /\ wsR[f].issued >= 1
            /\ (afPinv[f] # EMPTY /\ afPinv'[f] = EMPTY)
               => /\ eventFrontDataPulled[f].done
                  /\ FrontDataPulled[f]
                  /\ eventFrontDataReady[f].done]_vars

\* A front that is not push-only went through the whole order: its ready
\* event was consumed, its pulled event fired and was destroyed by the
\* finishFront that removed it.
C7_Witness ==
    /\ lastCall.op = "finishFront"
    /\ lastCall.path = "freed"
    /\ lastCall.destroyed = {<<"pulled", "live">>}
    /\ eventFrontDataReady[lastCall.f].life = "destroyed"
    /\ afPinv[lastCall.f] = EMPTY

\* C8: a pullFrontData or finishFront that returns false leaves the whole
\* scheduler state as it was.
C8_FalseLeavesStateUnchanged ==
    [][\A f \in Fronts :
          ((IsCall("pullFrontData", f) \/ IsCall("finishFront", f))
               /\ lastCall'.ret = FALSE)
          => UNCHANGED schedVars]_vars

\* pullFrontData returned false on a front whose ready event is pending.
C8_Witness ==
    /\ lastCall.op = "pullFrontData"
    /\ lastCall.ret = FALSE
    /\ eventFrontDataReady[lastCall.f].life = "live"
    /\ ~eventFrontDataReady[lastCall.f].done

\* C9: activateFront(f) on an active front changes nothing.
C9_ActivateIdempotent ==
    [][\A f \in Fronts :
          (IsCall("activateFront", f) /\ afPinv[f] # EMPTY)
          => (UNCHANGED schedVars /\ lastCall'.path = "already_active")]_vars

\* activateFront was called on a front that was already active, with
\* another front active behind it.
C9_Witness ==
    /\ lastCall.op = "activateFront"
    /\ lastCall.path = "already_active"
    /\ afPinv[lastCall.f] = 0
    /\ numActiveFronts = NumFronts

\* C10: once the pull of f has been issued (or f is push-only, so that
\* pullFrontData returns true from the start), pullFrontData(f) returns true,
\* queries, creates and destroys no event, issues no copy and changes
\* nothing; and no step resets FrontDataPulled[f].
C10_PullIdempotent ==
    [][\A f \in Fronts :
          /\ (FrontDataPulled[f] => FrontDataPulled'[f])
          /\ (IsCall("pullFrontData", f) /\ (FrontDataPulled[f] \/ isPushOnly(f)))
             => /\ lastCall'.ret = TRUE
                /\ lastCall'.queried = {} /\ lastCall'.created = {}
                /\ lastCall'.destroyed = {} /\ lastCall'.transfers = 0
                /\ UNCHANGED schedVars]_vars

\* pullFrontData was called again on a front whose pull had been issued.
C10_Witness ==
    /\ lastCall.op = "pullFrontData"
    /\ lastCall.path = "already_pulled"
    /\ FrontDataPulled[lastCall.f]
    /\ wsR[lastCall.f].issued = 1

\* C11 as stated: once finishFront(f) has returned true, every later
\* finishFront(f) returns true and changes nothing and queries and destroys no
\* event.  For a front that pulls data the earlier true return is readable
\* from the state: only a finishFront(f) that returns true destroys
\* eventFrontDataPulled[f], and a destroyed handle never comes back.
C11_FinishedForEver ==
    [][\A f \in Fronts :
          (IsCall("finishFront", f)
               /\ eventFrontDataPulled[f].life = "destroyed")
          => /\ lastCall'.ret = TRUE
             /\ lastCall'.queried = {}
             /\ lastCall'.destroyed = {}
             /\ UNCHANGED schedVars]_vars

\* C11 amended: while f is out of the active set (it was finished and has not
\* been activated since), finishFront(f) returns true, leaves the active set,
\* numActiveFronts and every event unchanged, and queries and destroys no
\* event.
C11_FinishIdempotent ==
    [][\A f \in Fronts :
          (IsCall("finishFront", f) /\ afPinv[f] = EMPTY)
          => /\ lastCall'.ret = TRUE
             /\ lastCall'.queried = {}
             /\ lastCall'.destroyed = {}
             /\ UNCHANGED schedVars]_vars

\* A second finishFront on a finished front whose pulled event was destroyed
\* by the first.
C11_Witness ==
    /\ lastCall.op = "finishFront"
    /\ lastCall.path = "already_freed"
    /\ state[lastCall.f] # "ALLOCATE_WAIT"
    /\ eventFrontDataPulled[lastCall.f].life = "destroyed"

\* C12: an activateFront(f) that inserts f writes state[f] by the front's
\* classification alone: FACTORIZE for a dense front (marked push-only or
\* not), PARENT_WAIT for a sparse push-only front, ASSEMBLE_S for a sparse
\* front that is not push-only; the state of no other front is written.
C12_ActivationState ==
    [][\A f \in Fronts :
          (IsCall("activateFront", f) /\ afPinv[f] = EMPTY)
          => /\ afPinv'[f] # EMPTY
             /\ ~sparseMeta[f].isSparse => state'[f] = "FACTORIZE"
             /\ (sparseMeta[f].isSparse /\ sparseMeta[f].pushOnly)
                    => state'[f] = "PARENT_WAIT"
             /\ (sparseMeta[f].isSparse /\ ~sparseMeta[f].pushOnly)
                    => state'[f] = "ASSEMBLE_S"
             /\ \A g \in Fronts \ {f} : state'[g] = state[g]]_vars

\* A dense front marked push-only has just been inserted and is in FACTORIZE,
\* beside a sparse push-only front in PARENT_WAIT.
C12_Witness ==
    /\ lastCall.op = "activateFront"
    /\ lastCall.path = "activated"
    /\ ~sparseMeta[lastCall.f].isSparse
    /\ sparseMeta[lastCall.f].pushOnly
    /\ state[lastCall.f] = "FACTORIZE"
    /\ \E g \in Fronts : /\ sparseMeta[g].isSparse
                         /\ sparseMeta[g].pushOnly
                         /\ afPinv[g] # EMPTY
                         /\ state[g] = "PARENT_WAIT"

\* C13: pullFrontData(f) on a front that is not push-only, whose data is not
\* yet pulled and whose ready event has fired, destroys the ready event,
\* creates the pulled event, issues exactly one copy (of f's data, on the
\* device-to-host stream), sets FrontDataPulled[f] and returns true; it
\* touches no other front.
C13_PullIssuesTransfer ==
    [][\A f \in Fronts :
          (/\ IsCall("pullFrontData", f)
           /\ ~sparseMeta[f].pushOnly
           /\ ~FrontDataPulled[f]
           /\ eventFrontDataReady[f].life = "live"
           /\ eventFrontDataReady[f].done)
          => /\ lastCall'.ret = TRUE
             /\ eventFrontDataReady'[f].life = "destroyed"
             /\ lastCall'.destroyed = {<<"ready", "live">>}
             /\ eventFrontDataPulled[f].life = "null"
             /\ eventFrontDataPulled'[f].life = "live"
             /\ lastCall'.created = {"pulled"}
             /\ lastCall'.transfers = 1
             /\ wsR'[f].issued = wsR[f].issued + 1
             /\ wsR'[f].inFlight
             /\ wsR'[f].stream = memoryStreamD2H
             /\ FrontDataPulled'[f]
             /\ \A g \in Fronts \ {f} :
                   /\ wsR'[g] = wsR[g]
                   /\ FrontDataPulled'[g] = FrontDataPulled[g]
                   /\ eventFrontDataReady'[g] = eventFrontDataReady[g]
                   /\ eventFrontDataPulled'[g] = eventFrontDataPulled[g]]_vars

\* A pull has just issued the copy of a staged front.
C13_Witness ==
    /\ lastCall.op = "pullFrontData"
    /\ lastCall.path = "issued"
    /\ sparseMeta[lastCall.f].isStaged
    /\ wsR[lastCall.f].inFlight
    /\ wsR[lastCall.f].issued = 1
    /\ FrontDataPulled[lastCall.f]
    /\ eventFrontDataReady[lastCall.f].life = "destroyed"

\* C14: for a push-only front C, pullFrontData(C) returns true without
\* querying the ready event, creating the pulled event or setting
\* FrontDataPulled[C] (it changes nothing); finishFront(C) on an active C
\* returns true and removes C from the active set without querying or
\* destroying any event.
C14_PushOnlyNeverTouchesEvents ==
    [][\A f \in Fronts :
          sparseMeta[f].pushOnly
          => /\ IsCall("pullFrontData", f)
                  => /\ lastCall'.ret = TRUE
                     /\ lastCall'.queried = {}
                     /\ lastCall'.created = {}
                     /\ lastCall'.transfers = 0
                     /\ FrontDataPulled'[f] = FrontDataPulled[f]
                     /\ ~FrontDataPulled'[f]
                     /\ UNCHANGED schedVars
             /\ (IsCall("finishFront", f) /\ afPinv[f] # EMPTY)
                  => /\ lastCall'.ret = TRUE
                     /\ lastCall'.queried = {}
                     /\ lastCall'.destroyed = {}
                     /\ afPinv'[f] = EMPTY
                     /\ numActiveFronts' = numActiveFronts - 1
                     /\ UNCHANGED <<eventFrontDataReady, eventFrontDataPulled,
                                    FrontDataPulled, wsR>>]_vars

\* A push-only front has just been finished while another front stays
\* active; it never had an event or a pulled flag.
C14_Witness ==
    /\ lastCall.op = "finishFront"
    /\ lastCall.path = "freed"
    /\ sparseMeta[lastCall.f].pushOnly
    /\ afPinv[lastCall.f] = EMPTY
    /\ numActiveFronts >= 1
    /\ ~FrontDataPulled[lastCall.f]
    /\ eventFrontDataReady[lastCall.f].life = "null"
    /\ eventFrontDataPulled[lastCall.f].life = "null"

\* C15: an active front that is not push-only and whose ready event has been
\* recorded (so that, on a device that makes progress, the ready event and
\* then the pulled event fire) is eventually pulled and finished by a
\* planner that keeps retrying: pullFrontData(f) has returned true
\* (FrontDataPulled[f]), finishFront(f) returns true and f is out of the
\* active set.
C15_EventuallyFinished ==
    \A f \in Fronts :
        (/\ afPinv[f] # EMPTY
         /\ ~sparseMeta[f].pushOnly
         /\ eventFrontDataReady[f].life = "live")
        ~> (/\ lastCall.op = "finishFront"
            /\ lastCall.f = f
            /\ lastCall.path = "freed"
            /\ lastCall.ret = TRUE
            /\ FrontDataPulled[f]
            /\ afPinv[f] = EMPTY)

\* A front that went through the whole lifecycle: its finishFront has just
\* returned true after a call that returned false was retried (its pulled
\* event had to wait for the copy).
C15_Witness ==
    /\ lastCall.op = "finishFront"
    /\ lastCall.path = "freed"
    /\ lastCall.queried = {<<"pulled", "live">>}
    /\ ~sparseMeta[lastCall.f].pushOnly
    /\ FrontDataPulled[lastCall.f]
    /\ eventFrontDataReady[lastCall.f].life = "destroyed"
    /\ eventFrontDataPulled[lastCall.f].life = "destroyed"
    /\ ~wsR[lastCall.f].inFlight
    /\ afPinv[lastCall.f] = EMPTY

\* C16: fronts are independent.  (1) What pullFrontData(f) and finishFront(f)
\* return is determined by f's own classification, pulled flag, membership
\* and events, whatever position f has in the active set and whatever the
\* other fronts are doing, so that fronts can be finished in any order.
\* (2) No other front holds f back: once f's own copy has completed, f's
\* pulled event is free to fire, whatever kernels and copies of other fronts
\* are still pending.
C16_FrontsIndependent ==
    [][\A f \in Fronts :
          /\ (IsCall("pullFrontData", f)
                 /\ (sparseMeta[f].pushOnly \/ FrontDataPulled[f]))
               => lastCall'.ret = TRUE
          /\ (IsCall("pullFrontData", f)
                 /\ ~(sparseMeta[f].pushOnly \/ FrontDataPulled[f])
                 /\ eventFrontDataReady[f].life # "destroyed")
               => lastCall'.ret = (eventFrontDataReady[f].life = "live"
                                     /\ eventFrontDataReady[f].done)
          /\ (IsCall("finishFront", f)
                 /\ (afPinv[f] = EMPTY \/ sparseMeta[f].pushOnly))
               => lastCall'.ret = TRUE
          /\ (IsCall("finishFront", f)
                 /\ ~(afPinv[f] = EMPTY \/ sparseMeta[f].pushOnly)
                 /\ eventFrontDataPulled[f].life # "destroyed")
               => lastCall'.ret = (eventFrontDataPulled[f].life = "live"
                                     /\ eventFrontDataPulled[f].done)
          /\ (/\ eventFrontDataPulled'[f].life = "live"
              /\ ~eventFrontDataPulled'[f].done
              /\ ~wsR'[f].inFlight)
               => (eventFrontDataPulled'[f].waits \cap PendingWork' = {})]_vars

\* A front that finishFront has removed: it is out of the active set and its
\* state has been written (state is written only by an activateFront that
\* inserts the front, and only a finishFront that returns true removes it).
Finished(f) == afPinv[f] = EMPTY /\ state[f] # "ALLOCATE_WAIT"

\* C17 as stated: the core forbids reactivation: a front removed from the
\* active set by a successful finishFront is never inserted again.
C17_NeverReactivated ==
    [][\A f \in Fronts : Finished(f) => afPinv'[f] = EMPTY]_vars

\* C17 amended: the core does not prevent reactivation.  activateFront(f)
\* on a front that finishFront has removed inserts it again, at the end of
\* the active set; no other step brings a finished front back.
C17_ReactivatedOnlyByActivate ==
    [][\A f \in Fronts :
          Finished(f)
          => IF IsCall("activateFront", f)
               THEN /\ afPinv'[f] = numActiveFronts
                    /\ afPerm'[numActiveFronts] = f
                    /\ numActiveFronts' = numActiveFronts + 1
               ELSE afPinv'[f] = EMPTY]_vars

\* A front that was pulled and finished has just been inserted again, next
\* to another active front.
C17_Witness ==
    /\ lastCall.op = "activateFront"
    /\ lastCall.path = "activated"
    /\ afPinv[lastCall.f] # EMPTY
    /\ afPinv[lastCall.f] = numActiveFronts - 1
    /\ numActiveFronts >= 2
    /\ FrontDataPulled[lastCall.f]
    /\ eventFrontDataPulled[lastCall.f].life = "destroyed"

\* C18: a finishFront(f) that returns true on an active front removes exactly
\* f by swap-with-last: numActiveFronts decreases by one, afPinv[f] becomes
\* EMPTY, the front of the last active position, when it is not f, takes f's
\* former position, and every other active front keeps its position and
\* stays active; when f was the last (or the only) active front no other
\* front moves.
C18_SwapWithLast ==
    [][\A f \in Fronts :
          (IsCall("finishFront", f) /\ afPinv[f] # EMPTY /\ lastCall'.ret = TRUE)
          => LET position == afPinv[f]
                 last == afPerm[numActiveFronts - 1]
             IN /\ numActiveFronts' = numActiveFronts - 1
                /\ afPinv'[f] = EMPTY
                /\ last # f => /\ afPinv'[last] = position
                               /\ afPerm'[position] = last
                /\ \A g \in Fronts \ {f, last} :
                      /\ afPinv'[g] = afPinv[g]
                      /\ afPinv[g] # EMPTY => afPerm'[afPinv[g]] = g
                /\ last = f => /\ \A g \in Fronts \ {f} : afPinv'[g] = afPinv[g]
                               /\ \A p \in 0 .. (numActiveFronts' - 1) :
                                     afPerm'[p] = afPerm[p]]_vars

\* The front of position 0 has just been finished out of three active
\* fronts: the last one took position 0 (its old slot is the stale copy
\* behind the active prefix) and the middle one stayed at position 1.
C18_Witness ==
    /\ lastCall.op = "finishFront"
    /\ lastCall.path = "freed"
    /\ numActiveFronts = 2
    /\ afPerm[2] = afPerm[0]
    /\ afPinv[afPerm[0]] = 0
    /\ afPinv[afPerm[1]] = 1
    /\ afPinv[lastCall.f] = EMPTY

\* C20: with NumFronts fronts and an empty active set at the start, every
\* reachable state has 0 <= numActiveFronts <= NumFronts; whenever some front
\* is inactive (activateFront can append) numActiveFronts is an index below
\* NumFronts, and whenever some front is active (finishFront can decrement)
\* numActiveFronts is at least 1.
C20_CountInRange ==
    /\ numActiveFronts \in 0 .. NumFronts
    /\ (\E f \in Fronts : afPinv[f] = EMPTY) => numActiveFronts \in Positions
    /\ (\E f \in Fronts : afPinv[f] # EMPTY) => numActiveFronts >= 1

\* The append has just written the last slot of afPerm: every front is
\* active.
C20_Witness ==
    /\ lastCall.op = "activateFront"
    /\ lastCall.path = "activated"
    /\ numActiveFronts = NumFronts
    /\ afPerm[NumFronts - 1] = lastCall.f

\* C19: spex_cholesky_up_factor hands results to the caller only on success.
\* When it has returned, *L_handle and *rhos_handle are non-NULL (and point
\* to the live L and rhos) exactly when it returned SPEX_OK, which it does
\* only after all n iterations found a nonzero pivot; it returns SPEX_NOTSPD
\* at the first iteration k with x[k] = 0, with L and rhos freed and no later
\* iteration run; the return of line 130, taken when an allocation of the
\* workspace failed, gives SPEX_OUT_OF_MEMORY; on every return but SPEX_OK
\* the two handles are NULL.
C19_ResultsOnlyOnSuccess ==
    frame.pc = "returned"
    => /\ (L_handle # NULL /\ rhos_handle # NULL) <=> frame.info = "SPEX_OK"
       /\ frame.info # "SPEX_OK" => (L_handle = NULL /\ rhos_handle = NULL)
       /\ frame.info = "SPEX_OK"
            => /\ frame.line = 298
               /\ frame.k = A.n
               /\ \A i \in 1 .. A.n : A.pivot[i] # 0
               /\ L_handle = "L" /\ rhos_handle = "rhos"
               /\ heap = {"L", "rhos"}
       /\ frame.info = "SPEX_NOTSPD"
            => /\ frame.line = 240
               /\ frame.k < A.n
               /\ A.pivot[frame.k + 1] = 0
               /\ \A i \in 1 .. frame.k : A.pivot[i] # 0
               /\ heap = {}
       /\ frame.line = 130 => frame.info = "SPEX_OUT_OF_MEMORY" /\ heap = {}
       /\ frame.line = 240 => frame.info = "SPEX_NOTSPD"

\* The factorization of a matrix of dimension 3 has returned SPEX_NOTSPD at
\* its second iteration, after one nonzero pivot; the handles are NULL.
C19_Witness ==
    /\ frame.pc = "returned"
    /\ frame.info = "SPEX_NOTSPD"
    /\ A.n = 3
    /\ frame.k = 1
    /\ A.pivot[3] # 0
    /\ L_handle = NULL
    /\ rhos_handle = NULL

\* C21: in any sequence of activateFront, pullFrontData and finishFront
\* calls an event is queried or destroyed only while it exists: the pulled
\* event of a front is never queried or destroyed before pullFrontData
\* created it or after finishFront destroyed it, the ready event is never
\* queried after pullFrontData destroyed it, and no event is destroyed twice.
\* (Each entry of the call's log holds the state of the handle at the moment
\* it was used.)
C21_EventsUsedOnlyWhileTheyExist ==
    [][\A e \in lastCall'.queried \cup lastCall'.destroyed :
          /\ e[1] = "pulled" => e[2] = "live"
          /\ e[1] = "ready" => e[2] # "destroyed"]_vars

====
